---- MODULE Spec2Model ----
(***************************************************************************)
(* Model of bootstrap.py, the TPLink Deco Poller bootstrap installer.      *)
(* The state is the host the installer mutates (packages, the tree under   *)
(* /srv/tplink-deco, root's crontab, the staging directory), the remote    *)
(* repository it downloads from, and the position of the bootstrap process *)
(* in TPLinkBootstrap.run.  Every method of TPLinkBootstrap is one action. *)
(***************************************************************************)
EXTENDS Integers, Sequences, FiniteSets, TLC

(***************************************************************************)
(* Bounds of the model.                                                    *)
(***************************************************************************)
\* number of times the bootstrap process is started
MaxRuns == 2
\* number of direct calls of a method (download_files, setup_cron) in the
\* specifications that exercise one method alone
MaxCalls == 2

(***************************************************************************)
(* Program constants.                                                      *)
(***************************************************************************)
GITHUB_REPO == "visvarb/tplink-deco-poller"

\* REQUIRED_FILES, in insertion order (the order of both loops of
\* download_files)
REQUIRED_FILES == <<"generate_hosts.py", "run_generate_hosts.sh", "requirements.txt">>

FileNames == {REQUIRED_FILES[i] : i \in 1..Len(REQUIRED_FILES)}

cron_job == "0 * * * * /srv/tplink-deco/run_generate_hosts.sh"

SENTINEL_GATEWAY == "your_router_gateway_ip_address"
SENTINEL_PASSWORD == "your_router_password"

\* modes, written as the octal digits of the source (0o755 -> 755)
MODE_DIR == 755
MODE_SCRIPT == 755
MODE_PLAIN == 644
MODE_SECRET == 600

ROOT_UID == 0

\* faulty variant of files_permissions: tplink.env readable by all
files_permissions_loose ==
    << <<"generate_hosts.py", MODE_PLAIN>>,
       <<"tplink.env", MODE_PLAIN>>,
       <<"run_generate_hosts.sh", MODE_SCRIPT>>,
       <<"requirements.txt", MODE_PLAIN>> >>

\* files_permissions of set_permissions, in dictionary order
files_permissions ==
    << <<"generate_hosts.py", MODE_PLAIN>>,
       <<"tplink.env", MODE_SECRET>>,
       <<"run_generate_hosts.sh", MODE_SCRIPT>>,
       <<"requirements.txt", MODE_PLAIN>> >>

\* the ten entries of `steps` in run, in order
steps ==
    << "check_privileges", "check_internet_connection", "update_packages",
       "install_system_dependencies", "create_directories", "download_files",
       "setup_virtual_environment", "create_env_file", "set_permissions",
       "setup_cron" >>

StepIndex(name) == CHOOSE i \in 1..Len(steps) : steps[i] = name

(***************************************************************************)
(* Values of the environment.                                              *)
(***************************************************************************)
\* byte contents an artifact can have: two are enough to tell identical
\* from different
Versions == {"v1", "v2"}
\* what datetime.now().strftime('%Y%m%d_%H%M%S') can give: local wall-clock
\* time to the second, which two calls can read alike
Times == {"20261102_010000", "20261102_010001"}
\* a path that does not exist; what exists is a record with exists = TRUE
Absent == [exists |-> FALSE]

\* process umask: 022 gives 755/644 to what is created, 077 gives 700/600
Umasks == {"022", "077"}
NewDirMode(umask) == IF umask = "022" THEN 755 ELSE 700
NewFileMode(umask) == IF umask = "022" THEN 644 ELSE 600

\* tplink.env contents: the two values and which writer produced the text
TemplateContent ==
    [gateway |-> SENTINEL_GATEWAY, password |-> SENTINEL_PASSWORD, generated |-> FALSE]

\* `"your_router_gateway_ip_address" in env_content` and the password twin
HasGatewaySentinel(c) == c.gateway = SENTINEL_GATEWAY \/ c.password = SENTINEL_GATEWAY
HasPasswordSentinel(c) == c.gateway = SENTINEL_PASSWORD \/ c.password = SENTINEL_PASSWORD

(***************************************************************************)
(* Crontab text.  A text is a sequence of tokens: the literal cron_job is  *)
(* one token, every other token is a single character.                     *)
(***************************************************************************)
NL == "\n"
Whitespace == {NL, " "}

\* `cron_job in current_crontab`
Contains(text, job) == \E i \in 1..Len(text) : text[i] = job

\* str.rstrip()
RECURSIVE rstrip(_)
rstrip(text) ==
    IF text = <<>> THEN <<>>
    ELSE IF text[Len(text)] \in Whitespace THEN rstrip(SubSeq(text, 1, Len(text) - 1))
    ELSE text

\* the lines of a text (split at NL, a final NL ends the last line)
RECURSIVE SplitLines(_, _)
SplitLines(text, cur) ==
    IF text = <<>> THEN (IF cur = <<>> THEN <<>> ELSE <<cur>>)
    ELSE IF Head(text) = NL THEN <<cur>> \o SplitLines(Tail(text), <<>>)
    ELSE SplitLines(Tail(text), Append(cur, Head(text)))

Lines(text) == SplitLines(text, <<>>)

\* number of whole lines equal to the entry / containing the entry
CountEqual(text, job) ==
    Cardinality({i \in 1..Len(Lines(text)) : Lines(text)[i] = <<job>>})
CountContaining(text, job) ==
    Cardinality({i \in 1..Len(Lines(text)) : Contains(Lines(text)[i], job)})

VARIABLES
    pc,           \* position of the bootstrap process
    runs,         \* processes started so far
    euid,         \* os.geteuid() of the current process
    umask,        \* umask of the current process
    pkg,          \* apt state: cache freshness, required packages installed
    base_dir,     \* /srv/tplink-deco: Absent or [owner, mode]
    log_dir,      \* /srv/tplink-deco/log: Absent or [owner, mode]
    venv_dir,     \* /srv/tplink-deco/venv: Absent or [mode, deps]
    files,        \* installed artifacts: name -> Absent or [content, mode, owner]
    env_file,     \* tplink.env: Absent or [content, mode, owner]
    backups,      \* <<name, timestamp>> -> Absent or content
    temp_dir,     \* whether the staging directory of download_files exists
    crontab,      \* root's crontab, a text
    remote,       \* the repository: name -> content served
    started,      \* steps started by the current process, in order
    outcome,      \* what run() did: "running", TRUE/FALSE returned, "raised"
    summary_shown,\* show_summary was called by the current process
    exit_code,    \* exit status of the last process, -1 while none has exited
    hist          \* history of the current process, for the properties

vars == << pc, runs, euid, umask, pkg, base_dir, log_dir, venv_dir, files,
           env_file, backups, temp_dir, crontab, remote, started, outcome,
           summary_shown, exit_code, hist >>

host == << pkg, base_dir, log_dir, venv_dir, files, env_file, backups, temp_dir, crontab >>


(***************************************************************************)
(* The methods of TPLinkBootstrap, as functions of the state they read and *)
(* of the answers of the environment.  Each returns the value the method   *)
(* returns (ok) and the state it leaves.                                   *)
(***************************************************************************)

\* check_privileges: os.geteuid() != 0 -> False
check_privileges(uid) == uid = ROOT_UID

\* check_internet_connection: urlopen answers, raises URLError (caught), or
\* raises a timeout from the response read, which is no URLError
NetAnswers == {"ok", "URLError", "timeout"}
check_internet_connection(net) ==
    CASE net = "ok" -> "True"
      [] net = "URLError" -> "False"
      [] OTHER -> "raised"

\* update_packages: skip when pkgcache.bin is younger than an hour, else
\* `apt update` (check=True)
update_packages(p, apt_ok) ==
    IF p.fresh THEN [ok |-> TRUE, pkg |-> p, ran |-> FALSE]
    ELSE IF apt_ok THEN [ok |-> TRUE, pkg |-> [p EXCEPT !.fresh = TRUE], ran |-> TRUE]
    ELSE [ok |-> FALSE, pkg |-> p, ran |-> TRUE]

\* install_system_dependencies: one batched `apt install -y` of what
\* `dpkg -l` does not list
install_system_dependencies(p, apt_ok) ==
    IF p.installed THEN [ok |-> TRUE, pkg |-> p, ran |-> FALSE]
    ELSE IF apt_ok THEN [ok |-> TRUE, pkg |-> [p EXCEPT !.installed = TRUE], ran |-> TRUE]
    ELSE [ok |-> FALSE, pkg |-> p, ran |-> TRUE]

\* faulty variant of create_directories: mkdir without the exists() test,
\* which raises on a directory that is there
create_directories_unguarded(base, log, um, fail_at) ==
    IF base # Absent \/ log # Absent
    THEN [ok |-> FALSE, base_dir |-> base, log_dir |-> log, failed |-> FALSE]
    ELSE [ok |-> fail_at = 0,
          base_dir |-> IF fail_at = 1 THEN base ELSE [exists |-> TRUE, owner |-> "root", mode |-> NewDirMode(um)],
          log_dir |-> IF fail_at = 0 THEN [exists |-> TRUE, owner |-> "root", mode |-> NewDirMode(um)] ELSE log,
          failed |-> fail_at # 0]

\* create_directories: mkdir(parents=True) of base_dir, then of log_dir,
\* each only when it does not exist; fail_at names the mkdir that raises
\* (0: none)
NewDir(um) == [exists |-> TRUE, owner |-> "root", mode |-> NewDirMode(um)]
create_directories(base, log, um, fail_at) ==
    LET base_fails == base = Absent /\ fail_at = 1
        base1 == IF base = Absent /\ ~base_fails THEN NewDir(um) ELSE base
        log_fails == ~base_fails /\ log = Absent /\ fail_at = 2
        log1 == IF log = Absent /\ ~base_fails /\ ~log_fails THEN NewDir(um) ELSE log
    IN  [ok |-> ~base_fails /\ ~log_fails, base_dir |-> base1, log_dir |-> log1,
         failed |-> base_fails \/ log_fails]

(***************************************************************************)
(* download_files                                                          *)
(***************************************************************************)
\* the first artifact, in REQUIRED_FILES order, whose urlretrieve raises;
\* 0 when none does
FirstFailure(failset) ==
    IF \E i \in 1..Len(REQUIRED_FILES) : REQUIRED_FILES[i] \in failset
    THEN CHOOSE i \in 1..Len(REQUIRED_FILES) :
            /\ REQUIRED_FILES[i] \in failset
            /\ \A j \in 1..(i - 1) : REQUIRED_FILES[j] \notin failset
    ELSE 0

\* where an exception is raised in the second loop: none, or at artifact i
\* in filecmp.cmp, in the backup copy2 or in the install copy2
CopyStages == {"cmp", "backup", "copy"}
CopyErrors == {<<0, "none">>} \cup ((1..Len(REQUIRED_FILES)) \X CopyStages)

\* backup_name: f"{local_name}.backup.{now:%Y%m%d_%H%M%S}"
backup_name(local_name, t) == <<local_name, t>>

\* shutil.copy2(temp_path, dest_path): content and mode of the staged file;
\* an existing destination keeps its owner
InstallCopy(dest, content, um) ==
    [exists |-> TRUE, content |-> content, mode |-> NewFileMode(um),
     owner |-> IF dest = Absent THEN "root" ELSE dest.owner]

\* faulty variant of CopyLoop: every existing destination is backed up,
\* without comparing it with the staged file
RECURSIVE CopyLoopAlwaysBackup(_, _, _, _, _, _, _, _)
CopyLoopAlwaysBackup(i, fs, bk, staged, base, um, ts, err) ==
    IF i > Len(REQUIRED_FILES)
    THEN [ok |-> TRUE, files |-> fs, backups |-> bk, last |-> i - 1, backed |-> {}]
    ELSE
      LET name == REQUIRED_FILES[i]
          dest == fs[name]
          exists == base # Absent /\ dest # Absent
          backs_up == exists /\ err # <<i, "cmp">> /\ err # <<i, "backup">>
          raised == \/ exists /\ err = <<i, "cmp">>
                    \/ exists /\ err = <<i, "backup">>
                    \/ err = <<i, "copy">>
                    \/ base = Absent
          bk1 == IF backs_up
                 THEN [bk EXCEPT ![backup_name(name, ts[i])] =
                                   [exists |-> TRUE, content |-> dest.content]]
                 ELSE bk
          fs1 == [fs EXCEPT ![name] = InstallCopy(dest, staged[name], um)]
          rest == CopyLoopAlwaysBackup(i + 1, fs1, bk1, staged, base, um, ts, err)
          done == IF backs_up THEN {name} ELSE {}
      IN  IF raised
          THEN [ok |-> FALSE, files |-> fs, backups |-> bk1, last |-> i, backed |-> done]
          ELSE [rest EXCEPT !.backed = @ \cup done]

\* the second loop of download_files from artifact i on: fs and bk are the
\* installed files and the backups so far, staged the downloaded contents,
\* ts[i] the clock reading for artifact i, err the raising operation; last
\* is the last artifact reached, backed the artifacts the loop backed up
RECURSIVE CopyLoop(_, _, _, _, _, _, _, _)
CopyLoop(i, fs, bk, staged, base, um, ts, err) ==
    IF i > Len(REQUIRED_FILES)
    THEN [ok |-> TRUE, files |-> fs, backups |-> bk, last |-> i - 1, backed |-> {}]
    ELSE
      LET name == REQUIRED_FILES[i]
          dest == fs[name]
          exists == base # Absent /\ dest # Absent
          differs == exists /\ dest.content # staged[name]
          backs_up == differs /\ err # <<i, "cmp">> /\ err # <<i, "backup">>
          raised == \/ exists /\ err = <<i, "cmp">>
                    \/ differs /\ err = <<i, "backup">>
                    \/ err = <<i, "copy">>
                    \/ base = Absent
          bk1 == IF backs_up
                 THEN [bk EXCEPT ![backup_name(name, ts[i])] =
                                   [exists |-> TRUE, content |-> dest.content]]
                 ELSE bk
          fs1 == [fs EXCEPT ![name] = InstallCopy(dest, staged[name], um)]
          rest == CopyLoop(i + 1, fs1, bk1, staged, base, um, ts, err)
          done == IF backs_up THEN {name} ELSE {}
      IN  IF raised
          THEN [ok |-> FALSE, files |-> fs, backups |-> bk1, last |-> i, backed |-> done]
          ELSE [rest EXCEPT !.backed = @ \cup done]

\* faulty variant of CleanupStaging: no finally clause
CleanupStagingMissing(temp_exists) == temp_exists

\* shutil.rmtree(self.temp_dir) of the finally clause
CleanupStaging(temp_exists) == FALSE

\* faulty variant of download_files: one loop, each artifact installed as
\* soon as it is downloaded, so that the artifacts before the first failed
\* download are installed
download_files_interleaved(fs, bk, base, rem, um, failset, ts, err) ==
    LET k == FirstFailure(failset)
        stop == IF k = 0 THEN <<0, "none">> ELSE <<k, "copy">>
        copied == CopyLoop(1, fs, bk, rem, base, um, ts, IF k = 0 THEN err ELSE stop)
    IN  [ok |-> copied.ok, files |-> copied.files, backups |-> copied.backups,
         temp_dir |-> FALSE, last |-> copied.last, backed |-> copied.backed]

\* download_files: mkdtemp, the download loop (abort at the first failure),
\* the copy loop, and the finally clause
download_files(fs, bk, base, rem, um, failset, ts, err) ==
    LET staging == TRUE
        k == FirstFailure(failset)
        copied == CopyLoop(1, fs, bk, rem, base, um, ts, err)
    IN  IF k # 0
        THEN [ok |-> FALSE, files |-> fs, backups |-> bk,
              temp_dir |-> CleanupStaging(staging), last |-> 0, backed |-> {}]
        ELSE [ok |-> copied.ok, files |-> copied.files, backups |-> copied.backups,
              temp_dir |-> CleanupStaging(staging), last |-> copied.last,
              backed |-> copied.backed]


(***************************************************************************)
(* setup_virtual_environment, create_env_file, set_permissions             *)
(***************************************************************************)
\* setup_virtual_environment: venv.create when venv_dir is absent, then
\* `pip install --upgrade pip`, then the requirements (or the fallback
\* package when requirements.txt is absent); fail names the command that
\* raises
VenvFailures == {"none", "create", "upgrade", "install"}
setup_virtual_environment(venv, fs, um, fail) ==
    LET create_fails == venv = Absent /\ fail = "create"
        venv1 == IF venv = Absent /\ ~create_fails
                 THEN [exists |-> TRUE, mode |-> NewDirMode(um), deps |-> "none"] ELSE venv
        deps == IF fs["requirements.txt"] # Absent
                THEN "requirements.txt" ELSE "tplinkrouterc6u>=5.4.0"
    IN  IF create_fails THEN [ok |-> FALSE, venv_dir |-> venv, failed |-> TRUE]
        ELSE IF fail \in {"upgrade", "install"}
        THEN [ok |-> FALSE, venv_dir |-> venv1, failed |-> TRUE]
        ELSE [ok |-> TRUE, venv_dir |-> [venv1 EXCEPT !.deps = deps], failed |-> FALSE]

\* faulty variant of create_env_file: the template is written without
\* looking whether tplink.env exists
create_env_file_overwriting(env, base, um, write_ok) ==
    IF base = Absent \/ ~write_ok THEN [ok |-> FALSE, env_file |-> env, failed |-> ~write_ok]
    ELSE [ok |-> TRUE, failed |-> FALSE,
          env_file |-> [exists |-> TRUE, content |-> TemplateContent,
                        mode |-> NewFileMode(um), owner |-> "root"]]

\* create_env_file: write the template only when tplink.env does not exist
create_env_file(env, base, um, write_ok) ==
    IF env # Absent THEN [ok |-> TRUE, env_file |-> env, failed |-> FALSE]
    ELSE IF base = Absent \/ ~write_ok THEN [ok |-> FALSE, env_file |-> env, failed |-> ~write_ok]
    ELSE [ok |-> TRUE, failed |-> FALSE,
          env_file |-> [exists |-> TRUE, content |-> TemplateContent,
                        mode |-> NewFileMode(um), owner |-> "root"]]

\* the calls of set_permissions, in order: 1 chown base_dir, 2 chmod
\* base_dir, 3 chmod log_dir, 4 chmod venv_dir (if it exists), 5..8 chmod of
\* the files_permissions entries (each if it exists)
PermissionCalls == 4 + Len(files_permissions)

\* the tree after the first n calls of set_permissions
PermissionsApplied(t, n) ==
    [ base_dir |-> IF t.base_dir = Absent THEN Absent
                   ELSE [exists |-> TRUE,
                         owner |-> IF n >= 1 THEN "root" ELSE t.base_dir.owner,
                         mode |-> IF n >= 2 THEN MODE_DIR ELSE t.base_dir.mode],
      log_dir |-> IF t.log_dir = Absent \/ n < 3 THEN t.log_dir
                  ELSE [t.log_dir EXCEPT !.mode = MODE_DIR],
      venv_dir |-> IF t.venv_dir = Absent \/ n < 4 THEN t.venv_dir
                   ELSE [t.venv_dir EXCEPT !.mode = MODE_DIR],
      files |-> [f \in FileNames |->
                    LET k == CHOOSE j \in 1..Len(files_permissions) : files_permissions[j][1] = f
                    IN  IF t.files[f] = Absent \/ n < 4 + k THEN t.files[f]
                        ELSE [t.files[f] EXCEPT !.mode = files_permissions[k][2]]],
      env_file |-> IF t.env_file = Absent \/ n < 6 THEN t.env_file
                   ELSE [t.env_file EXCEPT !.mode = files_permissions[2][2]] ]

\* whether call n of set_permissions is made: the chmod of venv_dir and of
\* the files is guarded by exists()
CallMade(t, n) ==
    CASE n <= 3 -> TRUE
      [] n = 4 -> t.venv_dir # Absent
      [] n = 6 -> t.env_file # Absent
      [] OTHER -> t.files[files_permissions[n - 4][1]] # Absent

\* faulty variant of set_permissions: when a call raises, what the earlier
\* steps installed is removed
set_permissions_rolling_back(t, fail_at) ==
    LET missing == IF t.base_dir = Absent THEN 1
                   ELSE IF t.log_dir = Absent THEN 3 ELSE 0
        env_fail == IF fail_at # 0 /\ CallMade(t, fail_at) THEN fail_at ELSE 0
        stop == IF missing # 0 /\ (env_fail = 0 \/ missing < env_fail) THEN missing ELSE env_fail
    IN  IF stop = 0
        THEN [ok |-> TRUE, tree |-> PermissionsApplied(t, PermissionCalls), failed |-> FALSE]
        ELSE [ok |-> FALSE,
              tree |-> [PermissionsApplied(t, 0) EXCEPT
                           !.env_file = Absent, !.files = [f \in FileNames |-> Absent]],
              failed |-> stop = env_fail]

\* set_permissions: the calls in order, stopping at the first that raises:
\* call fail_at if the environment makes it fail (0: none), call 1 when
\* base_dir is missing, call 3 when log_dir is missing
set_permissions(t, fail_at) ==
    LET missing == IF t.base_dir = Absent THEN 1
                   ELSE IF t.log_dir = Absent THEN 3 ELSE 0
        env_fail == IF fail_at # 0 /\ CallMade(t, fail_at) THEN fail_at ELSE 0
        stop == IF missing # 0 /\ (env_fail = 0 \/ missing < env_fail) THEN missing ELSE env_fail
    IN  IF stop = 0
        THEN [ok |-> TRUE, tree |-> PermissionsApplied(t, PermissionCalls), failed |-> FALSE]
        ELSE [ok |-> FALSE, tree |-> PermissionsApplied(t, stop - 1),
              failed |-> stop = env_fail]

(***************************************************************************)
(* setup_cron                                                              *)
(***************************************************************************)
\* what `crontab -l` gives: the table, an error exit with empty stdout, or
\* no crontab program at all (FileNotFoundError)
ListAnswers == {"ok", "error", "missing"}

\* current_crontab: stdout of `crontab -l`
current_crontab(table, list) == IF list = "ok" THEN table ELSE <<>>

\* new_crontab = current_crontab.rstrip() + "\n" + cron_job + "\n"
new_crontab(current) == rstrip(current) \o <<NL, cron_job, NL>>

\* faulty variant of AlreadyScheduled: the entry is never found
AlreadyScheduledNever(current) == FALSE

\* the test `cron_job in current_crontab`
AlreadyScheduled(current) == Contains(current, cron_job)

\* setup_cron: list, return True if the entry is found, else pipe the new
\* table to `crontab -`, whose exit status decides
setup_cron(table, list, commit_ok) ==
    LET current == current_crontab(table, list)
    IN  IF list = "missing" THEN [ok |-> FALSE, crontab |-> table, wrote |-> FALSE]
        ELSE IF AlreadyScheduled(current) THEN [ok |-> TRUE, crontab |-> table, wrote |-> FALSE]
        ELSE IF commit_ok THEN [ok |-> TRUE, crontab |-> new_crontab(current), wrote |-> TRUE]
        ELSE [ok |-> FALSE, crontab |-> table, wrote |-> FALSE]

(***************************************************************************)
(* The optional flows                                                      *)
(***************************************************************************)
\* what a prompt gives: a line typed, Ctrl-C, or end of input
KeyboardInterrupt == "KeyboardInterrupt"
EOFError == "EOFError"
Signals == {KeyboardInterrupt, EOFError}

\* answers to the two (Y/n) questions of run, as typed
TypedAnswers == {"", "y", "n", " No ", "N"}
\* response.strip().lower()
StripLower(s) ==
    CASE s = " No " -> "no"
      [] s = "N" -> "n"
      [] OTHER -> s
Declined(response) == response \in {"n", "no"}

\* values typed at the gateway and password prompts
TypedGateways == {"", " ", "10.1.0.1"}
TypedPasswords == {"", "secret"}
\* .strip() of those
Strip(s) == IF s = " " THEN "" ELSE s

\* faulty variant of configure_credentials: no test whether the file is
\* already configured
configure_credentials_always_asking(env, base, um, gw, pw, write_ok) ==
    LET keep(ret) == [ok |-> ret, env_file |-> env, wrote |-> FALSE]
    IN  IF gw = KeyboardInterrupt THEN keep(TRUE)
        ELSE IF gw = EOFError THEN keep(FALSE)
        ELSE IF Strip(gw) = "" THEN keep(TRUE)
        ELSE IF pw = KeyboardInterrupt THEN keep(TRUE)
        ELSE IF pw = EOFError THEN keep(FALSE)
        ELSE IF Strip(pw) = "" THEN keep(TRUE)
        ELSE IF base = Absent \/ ~write_ok THEN keep(FALSE)
        ELSE [ok |-> TRUE, wrote |-> TRUE,
              env_file |-> [exists |-> TRUE,
                            content |-> [gateway |-> Strip(gw), password |-> Strip(pw),
                                         generated |-> TRUE],
                            mode |-> MODE_SECRET,
                            owner |-> IF env = Absent THEN "root" ELSE env.owner]]

\* faulty variant of configure_credentials: an empty password is written
configure_credentials_accepting_empty(env, base, um, gw, pw, write_ok) ==
    LET keep(ret) == [ok |-> ret, env_file |-> env, wrote |-> FALSE]
    IN  IF env # Absent /\ ~HasGatewaySentinel(env.content) /\ ~HasPasswordSentinel(env.content)
        THEN keep(TRUE)
        ELSE IF gw = KeyboardInterrupt THEN keep(TRUE)
        ELSE IF gw = EOFError THEN keep(FALSE)
        ELSE IF Strip(gw) = "" THEN keep(TRUE)
        ELSE IF pw = KeyboardInterrupt THEN keep(TRUE)
        ELSE IF pw = EOFError THEN keep(FALSE)
        ELSE IF base = Absent \/ ~write_ok THEN keep(FALSE)
        ELSE [ok |-> TRUE, wrote |-> TRUE,
              env_file |-> [exists |-> TRUE,
                            content |-> [gateway |-> Strip(gw), password |-> Strip(pw),
                                         generated |-> TRUE],
                            mode |-> MODE_SECRET,
                            owner |-> IF env = Absent THEN "root" ELSE env.owner]]

\* faulty variant of configure_credentials: the file is written anew under
\* the umask and not chmod-ed
configure_credentials_without_chmod(env, base, um, gw, pw, write_ok) ==
    LET keep(ret) == [ok |-> ret, env_file |-> env, wrote |-> FALSE]
    IN  IF env # Absent /\ ~HasGatewaySentinel(env.content) /\ ~HasPasswordSentinel(env.content)
        THEN keep(TRUE)
        ELSE IF gw = KeyboardInterrupt THEN keep(TRUE)
        ELSE IF gw = EOFError THEN keep(FALSE)
        ELSE IF Strip(gw) = "" THEN keep(TRUE)
        ELSE IF pw = KeyboardInterrupt THEN keep(TRUE)
        ELSE IF pw = EOFError THEN keep(FALSE)
        ELSE IF Strip(pw) = "" THEN keep(TRUE)
        ELSE IF base = Absent \/ ~write_ok THEN keep(FALSE)
        ELSE [ok |-> TRUE, wrote |-> TRUE,
              env_file |-> [exists |-> TRUE,
                            content |-> [gateway |-> Strip(gw), password |-> Strip(pw),
                                         generated |-> TRUE],
                            mode |-> NewFileMode(um),
                            owner |-> IF env = Absent THEN "root" ELSE env.owner]]

\* configure_credentials: gw and pw are what the two prompts give
configure_credentials(env, base, um, gw, pw, write_ok) ==
    LET keep(ret) == [ok |-> ret, env_file |-> env, wrote |-> FALSE]
    IN  IF env # Absent /\ ~HasGatewaySentinel(env.content) /\ ~HasPasswordSentinel(env.content)
        THEN keep(TRUE)
        ELSE IF gw = KeyboardInterrupt THEN keep(TRUE)
        ELSE IF gw = EOFError THEN keep(FALSE)
        ELSE IF Strip(gw) = "" THEN keep(TRUE)
        ELSE IF pw = KeyboardInterrupt THEN keep(TRUE)
        ELSE IF pw = EOFError THEN keep(FALSE)
        ELSE IF Strip(pw) = "" THEN keep(TRUE)
        ELSE IF base = Absent \/ ~write_ok THEN keep(FALSE)
        ELSE [ok |-> TRUE, wrote |-> TRUE,
              env_file |-> [exists |-> TRUE,
                            content |-> [gateway |-> Strip(gw), password |-> Strip(pw),
                                         generated |-> TRUE],
                            mode |-> MODE_SECRET,
                            owner |-> IF env = Absent THEN "root" ELSE env.owner]]

\* faulty variant of run_initial_generation: the script is run whatever
\* tplink.env holds
run_initial_generation_unguarded(env, fs, script) ==
    IF fs["run_generate_hosts.sh"] = Absent THEN [ret |-> "False", invoked |-> FALSE]
    ELSE [ret |-> CASE script = "ok" -> "True"
                    [] script = KeyboardInterrupt -> KeyboardInterrupt
                    [] OTHER -> "False",
          invoked |-> TRUE]

\* run_initial_generation: skip (True) without a configured tplink.env,
\* else run the script with timeout=60; script is what the script does
ScriptAnswers == {"ok", "nonzero", "timeout", KeyboardInterrupt}
run_initial_generation(env, fs, script) ==
    IF env = Absent THEN [ret |-> "True", invoked |-> FALSE]
    ELSE IF HasGatewaySentinel(env.content) \/ HasPasswordSentinel(env.content)
    THEN [ret |-> "True", invoked |-> FALSE]
    ELSE IF fs["run_generate_hosts.sh"] = Absent THEN [ret |-> "False", invoked |-> FALSE]
    ELSE [ret |-> CASE script = "ok" -> "True"
                    [] script = KeyboardInterrupt -> KeyboardInterrupt
                    [] OTHER -> "False",
          invoked |-> TRUE]

\* main: sys.exit(0 if success else 1)
ExitStatus(success) == IF success THEN 0 ELSE 1


(***************************************************************************)
(* TPLinkBootstrap.run: the loop over `steps`                              *)
(***************************************************************************)
StepNames == {steps[i] : i \in 1..Len(steps)}

\* faulty variant of AfterStep: the loop does not look at what the step
\* returned
AfterStepIgnoringFailure(i, ret) ==
    IF i < Len(steps) THEN steps[i + 1] ELSE "ask_credentials"

\* where run goes after step i returned ret: the next step, the optional
\* flows after the last one, or `return False`
AfterStep(i, ret) ==
    IF ~ret THEN "exited"
    ELSE IF i < Len(steps) THEN steps[i + 1]
    ELSE "ask_credentials"

\* the host as the properties compare it across a process
Snapshot ==
    [base_dir |-> base_dir, log_dir |-> log_dir, venv_dir |-> venv_dir, files |-> files,
     env_file |-> env_file, backups |-> backups, crontab |-> crontab, pkg |-> pkg,
     temp_dir |-> temp_dir]

NoFiles == [f \in FileNames |-> Absent]
NoBackups == [b \in FileNames \X Times |-> Absent]

\* a host that has never seen the installer
Clean(h) ==
    /\ h.base_dir = Absent
    /\ h.log_dir = Absent
    /\ h.venv_dir = Absent
    /\ h.files = NoFiles
    /\ h.env_file = Absent
    /\ h.backups = NoBackups
    /\ ~Contains(h.crontab, cron_job)

NoCall == [called |-> FALSE]
NoProcess == [ran |-> FALSE]

\* the history of a process (or of a series of direct calls) that starts
BlankHist ==
    [results |-> <<>>, env_ok |-> TRUE, pre |-> Snapshot, dl |-> NoCall, cron |-> NoCall,
     prev_cron |-> NoCall, calls |-> 0, cred |-> "none", gen |-> "none",
     invoked |-> FALSE, remote_same |-> TRUE, prev |-> NoProcess, cc |-> NoCall]

\* ... of a process that starts after another one
NewHist ==
    [BlankHist EXCEPT
        !.prev = IF outcome = "none" THEN NoProcess
                 ELSE [ran |-> TRUE,
                       clean_success |-> /\ Len(hist.results) = Len(steps)
                                         /\ \A i \in 1..Len(hist.results) : hist.results[i]
                                         /\ hist.env_ok
                                         /\ Clean(hist.pre)]]

\* one iteration of the loop of run: step name returned ret
Bookkeeping(name, ret) ==
    /\ pc' = AfterStep(StepIndex(name), ret)
    /\ started' = Append(started, name)
    /\ outcome' = IF ret THEN outcome ELSE "False"
    /\ exit_code' = IF ret THEN exit_code ELSE ExitStatus(FALSE)
    /\ UNCHANGED << runs, euid, umask, remote, summary_shown >>

\* the history after a step returned ret (env_failed: an external command
\* or system call failed in it)
Stepped(h, ret, env_failed) ==
    [h EXCEPT !.results = Append(@, ret), !.env_ok = @ /\ ~env_failed]

(***************************************************************************)
(* Initial states                                                          *)
(***************************************************************************)
File(c, m, o) == [exists |-> TRUE, content |-> c, mode |-> m, owner |-> o]
Dir(o, m) == [exists |-> TRUE, owner |-> o, mode |-> m]

FreshTree ==
    [base_dir |-> Absent, log_dir |-> Absent, venv_dir |-> Absent, files |-> NoFiles,
     env_file |-> Absent]

\* trees a host can hold before the bootstrap starts: nothing; an
\* installation made by hand by another user, with loose modes and an
\* older script; a root installation whose credentials the operator has
\* filled in
ByHandTree ==
    [base_dir |-> Dir("deploy", 700), log_dir |-> Absent, venv_dir |-> Absent,
     files |-> [NoFiles EXCEPT !["generate_hosts.py"] = File("v2", 600, "deploy")],
     env_file |-> File(TemplateContent, 644, "deploy")]

ConfiguredTree ==
    [base_dir |-> Dir("root", 755), log_dir |-> Dir("root", 755),
     venv_dir |-> [exists |-> TRUE, mode |-> 755, deps |-> "requirements.txt"],
     files |-> [f \in FileNames |-> File("v1", 644, "root")],
     env_file |-> File([gateway |-> "10.1.0.1", password |-> "secret", generated |-> FALSE],
                       644, "root")]

\* hosts before the first bootstrap: a tree and root's job table
InitialHosts ==
    { <<FreshTree, <<>> >>, <<FreshTree, <<"x", NL>> >>,
      <<ByHandTree, <<"x", NL>> >>, <<ConfiguredTree, <<>> >> }

HostInit ==
    /\ runs = 0
    /\ euid = ROOT_UID
    /\ pkg = [fresh |-> FALSE, installed |-> FALSE]
    /\ backups = NoBackups
    /\ temp_dir = FALSE
    /\ remote = [f \in FileNames |-> "v1"]
    /\ started = <<>>
    /\ outcome = "none"
    /\ summary_shown = FALSE
    /\ exit_code = -1

Init ==
    /\ pc = "idle"
    /\ umask \in Umasks
    /\ HostInit
    /\ \E h \in InitialHosts :
          /\ base_dir = h[1].base_dir
          /\ log_dir = h[1].log_dir
          /\ venv_dir = h[1].venv_dir
          /\ files = h[1].files
          /\ env_file = h[1].env_file
          /\ crontab = h[2]
    /\ hist = BlankHist

(***************************************************************************)
(* Actions                                                                 *)
(***************************************************************************)
\* main with -h or --help: print the docstring and return
Help ==
    /\ pc = "idle"
    /\ pc' = "exited"
    /\ exit_code' = 0
    /\ UNCHANGED << runs, euid, umask, host, remote, started, outcome, summary_shown, hist >>

\* what the repository can serve at a later call: what it served before,
\* or another version of one artifact published since
Published(rem) ==
    {rem} \cup {[rem EXCEPT ![f] = v] : f \in FileNames, v \in Versions}

\* what the repository can serve when a later process starts: what it
\* served before, or a new version of the poller script
Released(rem) ==
    {rem} \cup {[rem EXCEPT !["generate_hosts.py"] = v] : v \in Versions}

\* main: a bootstrap process is started (the effective uid is the
\* caller's); exit 1 when GITHUB_REPO is still the placeholder
Main ==
    /\ pc \in {"idle", "exited"}
    /\ runs < MaxRuns
    /\ runs' = runs + 1
    /\ \E uid \in {ROOT_UID, 1000}, rem \in (IF runs = 0 THEN {remote} ELSE Released(remote)) :
          /\ euid' = uid
          /\ remote' = rem
          /\ pc' = IF GITHUB_REPO = "your-username/tplink-deco-poller"
                   THEN "exited" ELSE steps[1]
          /\ outcome' = IF GITHUB_REPO = "your-username/tplink-deco-poller"
                        THEN "placeholder" ELSE "running"
          /\ exit_code' = IF GITHUB_REPO = "your-username/tplink-deco-poller"
                          THEN 1 ELSE -1
          /\ hist' = [NewHist EXCEPT !.remote_same = (rem = remote)]
    /\ started' = <<>>
    /\ summary_shown' = FALSE
    /\ UNCHANGED << umask, host >>

CheckPrivileges ==
    /\ pc = "check_privileges"
    /\ LET ret == check_privileges(euid)
       IN  /\ Bookkeeping("check_privileges", ret)
           /\ hist' = Stepped(hist, ret, ~ret)
    /\ UNCHANGED host

CheckInternetConnection ==
    /\ pc = "check_internet_connection"
    /\ \E net \in NetAnswers :
          LET ret == check_internet_connection(net)
          IN  /\ pc' = IF ret = "True" THEN AfterStep(StepIndex("check_internet_connection"), TRUE)
                       ELSE "exited"
              /\ started' = Append(started, "check_internet_connection")
              /\ outcome' = CASE ret = "True" -> outcome
                              [] ret = "False" -> "False"
                              [] OTHER -> "raised"
              /\ exit_code' = IF ret = "True" THEN exit_code ELSE 1
              /\ hist' = IF ret = "raised" THEN [hist EXCEPT !.env_ok = FALSE]
                         ELSE Stepped(hist, ret = "True", ret # "True")
    /\ UNCHANGED << runs, euid, umask, remote, summary_shown, host >>

UpdatePackages ==
    /\ pc = "update_packages"
    /\ \E apt_ok \in (IF pkg.fresh THEN {TRUE} ELSE BOOLEAN) :
          LET r == update_packages(pkg, apt_ok)
          IN  /\ pkg' = r.pkg
              /\ Bookkeeping("update_packages", r.ok)
              /\ hist' = Stepped(hist, r.ok, ~r.ok)
    /\ UNCHANGED << base_dir, log_dir, venv_dir, files, env_file, backups, temp_dir,
                    crontab >>

InstallSystemDependencies ==
    /\ pc = "install_system_dependencies"
    /\ \E apt_ok \in (IF pkg.installed THEN {TRUE} ELSE BOOLEAN) :
          LET r == install_system_dependencies(pkg, apt_ok)
          IN  /\ pkg' = r.pkg
              /\ Bookkeeping("install_system_dependencies", r.ok)
              /\ hist' = Stepped(hist, r.ok, ~r.ok)
    /\ UNCHANGED << base_dir, log_dir, venv_dir, files, env_file, backups, temp_dir,
                    crontab >>

CreateDirectories ==
    /\ pc = "create_directories"
    /\ \E fail_at \in 0..2 :
          LET r == create_directories(base_dir, log_dir, umask, fail_at)
          IN  /\ fail_at # 0 => r.failed
              /\ base_dir' = r.base_dir
              /\ log_dir' = r.log_dir
              /\ Bookkeeping("create_directories", r.ok)
              /\ hist' = Stepped(hist, r.ok, r.failed)
    /\ UNCHANGED << pkg, venv_dir, files, env_file, backups, temp_dir, crontab >>

\* clock readings of one download_files call, one per artifact;
\* UnreadClock stands at the artifacts for which the clock is not read
ClockReadings == [1..Len(REQUIRED_FILES) -> Times]
UnreadClock == "20261102_010000"

\* a call of download_files with the answers of the environment: which
\* downloads fail, which operation of the copy loop raises, what the clock
\* shows; r is what the method returns and leaves
DownloadFilesCall(r, failset, err, ts) ==
    /\ failset # {} => err[1] = 0
    /\ err[1] # 0 => ~r.ok /\ r.last = err[1]
    /\ \A i \in 1..Len(REQUIRED_FILES) :
          REQUIRED_FILES[i] \notin r.backed => ts[i] = UnreadClock
    /\ files' = r.files
    /\ backups' = r.backups
    /\ temp_dir' = r.temp_dir

DownloadRecord(r, failset, err) ==
    [called |-> TRUE, ok |-> r.ok, failset |-> failset, err |-> err, staged |-> remote,
     files_before |-> files, backups_before |-> backups,
     files_after |-> r.files, backups_after |-> r.backups]

DownloadFiles ==
    /\ pc = "download_files"
    /\ \E failset \in SUBSET FileNames :
       \E err \in (IF failset = {} THEN CopyErrors ELSE {<<0, "none">>}),
          ts \in (IF failset = {} THEN ClockReadings ELSE {[i \in 1..Len(REQUIRED_FILES) |-> UnreadClock]}) :
          LET r == download_files(files, backups, base_dir, remote, umask, failset, ts, err)
          IN  /\ DownloadFilesCall(r, failset, err, ts)
              /\ Bookkeeping("download_files", r.ok)
              /\ hist' = [Stepped(hist, r.ok, failset # {} \/ err[1] # 0) EXCEPT
                            !.dl = DownloadRecord(r, failset, err)]
    /\ UNCHANGED << pkg, base_dir, log_dir, venv_dir, env_file, crontab >>

SetupVirtualEnvironment ==
    /\ pc = "setup_virtual_environment"
    /\ \E fail \in VenvFailures :
          LET r == setup_virtual_environment(venv_dir, files, umask, fail)
          IN  /\ fail # "none" => r.failed
              /\ fail = "create" => venv_dir = Absent
              /\ venv_dir' = r.venv_dir
              /\ Bookkeeping("setup_virtual_environment", r.ok)
              /\ hist' = Stepped(hist, r.ok, r.failed)
    /\ UNCHANGED << pkg, base_dir, log_dir, files, env_file, backups, temp_dir, crontab >>

CreateEnvFile ==
    /\ pc = "create_env_file"
    /\ \E write_ok \in (IF env_file = Absent /\ base_dir # Absent THEN BOOLEAN ELSE {TRUE}) :
          LET r == create_env_file(env_file, base_dir, umask, write_ok)
          IN  /\ env_file' = r.env_file
              /\ Bookkeeping("create_env_file", r.ok)
              /\ hist' = Stepped(hist, r.ok, r.failed)
    /\ UNCHANGED << pkg, base_dir, log_dir, venv_dir, files, backups, temp_dir, crontab >>

SetPermissions ==
    /\ pc = "set_permissions"
    /\ \E fail_at \in 0..PermissionCalls :
          LET r == set_permissions(Snapshot, fail_at)
          IN  /\ fail_at # 0 => r.failed
              /\ base_dir' = r.tree.base_dir
              /\ log_dir' = r.tree.log_dir
              /\ venv_dir' = r.tree.venv_dir
              /\ files' = r.tree.files
              /\ env_file' = r.tree.env_file
              /\ Bookkeeping("set_permissions", r.ok)
              /\ hist' = Stepped(hist, r.ok, r.failed)
    /\ UNCHANGED << pkg, backups, temp_dir, crontab >>

\* a call of setup_cron with the answers of `crontab -l` and `crontab -`
SetupCronCall(r, list, commit_ok) ==
    /\ r = setup_cron(crontab, list, commit_ok)
    /\ ~commit_ok => ~r.ok /\ list # "missing"
    /\ list = "error" => crontab # <<>>
    /\ crontab' = r.crontab

CronRecord(r, list) ==
    [called |-> TRUE, ok |-> r.ok, wrote |-> r.wrote, list |-> list,
     before |-> crontab, after |-> r.crontab]

SetupCron ==
    /\ pc = "setup_cron"
    /\ \E list \in ListAnswers, commit_ok \in BOOLEAN :
          LET r == setup_cron(crontab, list, commit_ok)
          IN  /\ SetupCronCall(r, list, commit_ok)
              /\ Bookkeeping("setup_cron", r.ok)
              /\ hist' = [Stepped(hist, r.ok, list # "ok" \/ ~commit_ok) EXCEPT
                            !.cron = CronRecord(r, list)]
    /\ UNCHANGED << pkg, base_dir, log_dir, venv_dir, files, env_file, backups, temp_dir >>


\* run, after the loop: the first question, and configure_credentials
\* unless the answer is n or no; Ctrl-C at the question skips the flow,
\* end of input at the question raises EOFError, which run does not catch
AskCredentials ==
    /\ pc = "ask_credentials"
    /\ \E typed \in TypedAnswers \cup Signals :
          LET runs_flow == typed \notin Signals /\ ~Declined(StripLower(typed))
          IN  \E gw \in (IF runs_flow THEN TypedGateways \cup Signals ELSE {""}),
                 pw \in (IF runs_flow THEN TypedPasswords \cup Signals ELSE {""}),
                 write_ok \in (IF runs_flow THEN BOOLEAN ELSE {TRUE}) :
                LET r == configure_credentials(env_file, base_dir, umask, gw, pw, write_ok)
                IN  /\ runs_flow /\ pw # "" => (gw \notin Signals /\ Strip(gw) # "")
                    /\ runs_flow /\ ~write_ok => (~r.ok /\ gw \notin Signals /\ pw \notin Signals)
                    /\ env_file' = IF runs_flow THEN r.env_file ELSE env_file
                    /\ pc' = IF typed = EOFError THEN "exited" ELSE "ask_generation"
                    /\ outcome' = IF typed = EOFError THEN "raised" ELSE outcome
                    /\ exit_code' = IF typed = EOFError THEN 1 ELSE exit_code
                    /\ hist' = [hist EXCEPT !.cred =
                                  CASE typed = KeyboardInterrupt -> "interrupted"
                                    [] typed = EOFError -> "eof"
                                    [] ~runs_flow -> "declined"
                                    [] r.wrote -> "configured"
                                    [] r.ok -> "kept"
                                    [] OTHER -> "failed"]
    /\ UNCHANGED << runs, euid, umask, pkg, base_dir, log_dir, venv_dir, files, backups,
                    temp_dir, crontab, remote, started, summary_shown >>

\* the rest of run: the second question, run_initial_generation unless the
\* answer is n or no (Ctrl-C at the question or while the script runs
\* skips), then show_summary and `return True`, on which main exits 0; end
\* of input at the question raises EOFError, which run does not catch
AskGeneration ==
    /\ pc = "ask_generation"
    /\ \E typed \in TypedAnswers \cup Signals :
          LET runs_flow == typed \notin Signals /\ ~Declined(StripLower(typed))
          IN  \E script \in (IF runs_flow THEN ScriptAnswers ELSE {"ok"}) :
                LET r == run_initial_generation(env_file, files, script)
                IN  /\ runs_flow /\ script # "ok" => r.invoked
                    /\ pc' = "exited"
                    /\ summary_shown' = (typed # EOFError)
                    /\ outcome' = IF typed = EOFError THEN "raised" ELSE "True"
                    /\ exit_code' = IF typed = EOFError THEN 1 ELSE ExitStatus(TRUE)
                    /\ hist' = [hist EXCEPT
                                  !.invoked = runs_flow /\ r.invoked,
                                  !.gen = CASE typed = KeyboardInterrupt -> "interrupted"
                                            [] typed = EOFError -> "eof"
                                            [] ~runs_flow -> "declined"
                                            [] r.ret = KeyboardInterrupt -> "interrupted"
                                            [] ~r.invoked /\ r.ret = "True" -> "skipped"
                                            [] r.ret = "True" -> "generated"
                                            [] script = "timeout" -> "timeout"
                                            [] OTHER -> "failed"]
    /\ UNCHANGED << runs, euid, umask, host, remote, started >>

Next ==
    \/ Help
    \/ Main
    \/ CheckPrivileges
    \/ CheckInternetConnection
    \/ UpdatePackages
    \/ InstallSystemDependencies
    \/ CreateDirectories
    \/ DownloadFiles
    \/ SetupVirtualEnvironment
    \/ CreateEnvFile
    \/ SetPermissions
    \/ SetupCron
    \/ AskCredentials
    \/ AskGeneration

\* the bootstrap, run up to MaxRuns times on one host
Spec == Init /\ [][Next]_vars

(***************************************************************************)
(* download_files alone: called up to MaxCalls times on an installation    *)
(* root holding any combination of installed artifacts, the repository     *)
(* publishing between the calls                                            *)
(***************************************************************************)
InstalledFiles ==
    [FileNames -> {Absent} \cup {File(v, 644, "root") : v \in Versions}]

InitFetch ==
    /\ pc = "fetch"
    /\ umask = "022"
    /\ HostInit
    /\ base_dir = Dir("root", 755)
    /\ log_dir = Dir("root", 755)
    /\ venv_dir = Absent
    /\ env_file = Absent
    /\ files \in InstalledFiles
    /\ crontab = <<>>
    /\ hist = BlankHist

\* a caller calls download_files; the repository serves what it served
\* before, or another version of one artifact published since
CallDownloadFiles ==
    /\ pc = "fetch"
    /\ hist.calls < MaxCalls
    /\ \E rem \in (IF hist.calls = 0 THEN {remote} ELSE Published(remote)) :
       \E failset \in SUBSET FileNames :
       \E err \in (IF failset = {} THEN CopyErrors ELSE {<<0, "none">>}),
          ts \in (IF failset = {} THEN ClockReadings ELSE {[i \in 1..Len(REQUIRED_FILES) |-> UnreadClock]}) :
          LET r == download_files(files, backups, base_dir, rem, umask, failset, ts, err)
          IN  /\ DownloadFilesCall(r, failset, err, ts)
              /\ remote' = rem
              /\ hist' = [hist EXCEPT !.calls = @ + 1,
                                      !.dl = [DownloadRecord(r, failset, err) EXCEPT
                                                 !.staged = rem]]
    /\ pc' = "fetched"
    /\ UNCHANGED << runs, euid, umask, pkg, base_dir, log_dir, venv_dir, env_file,
                    crontab, started, outcome, summary_shown, exit_code >>

\* the caller has looked at the result
ReturnFromDownloadFiles ==
    /\ pc = "fetched"
    /\ pc' = "fetch"
    /\ hist' = [hist EXCEPT !.dl = NoCall]
    /\ UNCHANGED << runs, euid, umask, host, remote, started, outcome, summary_shown,
                    exit_code >>

NextFetch ==
    \/ CallDownloadFiles
    \/ ReturnFromDownloadFiles

SpecFetch == InitFetch /\ [][NextFetch]_vars

(***************************************************************************)
(* setup_cron alone: called up to MaxCalls times in a row on any job table *)
(***************************************************************************)
JobTables ==
    { <<>>,
      <<NL>>,
      <<"x", NL>>,
      <<"x">>,
      <<"x", " ", NL, NL>>,
      <<cron_job, NL>>,
      <<cron_job>>,
      <<"x", NL, cron_job, NL, "x", NL>>,
      <<"1", cron_job, NL>>,
      <<"#", cron_job, NL, "x", NL>>,
      <<cron_job, " ", "x", NL>>,
      <<cron_job, NL, cron_job, NL>>,
      <<"#", cron_job, NL, cron_job, NL>> }

InitCron ==
    /\ pc = "cron"
    /\ umask = "022"
    /\ HostInit
    /\ base_dir = Absent
    /\ log_dir = Absent
    /\ venv_dir = Absent
    /\ env_file = Absent
    /\ files = NoFiles
    /\ crontab \in JobTables
    /\ hist = BlankHist

CallSetupCron ==
    /\ pc = "cron"
    /\ hist.calls < MaxCalls
    /\ \E list \in ListAnswers, commit_ok \in BOOLEAN :
          LET r == setup_cron(crontab, list, commit_ok)
          IN  /\ SetupCronCall(r, list, commit_ok)
              /\ hist' = [hist EXCEPT !.calls = @ + 1, !.prev_cron = hist.cron,
                                      !.cron = CronRecord(r, list)]
    /\ UNCHANGED << pc, runs, euid, umask, pkg, base_dir, log_dir, venv_dir, files,
                    env_file, backups, temp_dir, remote, started, outcome, summary_shown,
                    exit_code >>

NextCron == CallSetupCron

SpecCron == InitCron /\ [][NextCron]_vars


(***************************************************************************)
(* configure_credentials alone: called up to MaxCalls times on any         *)
(* tplink.env                                                              *)
(***************************************************************************)
\* tplink.env before the call: none, the template as create_env_file or
\* another user left it, one value filled in by hand, both filled in
EnvFiles ==
    { Absent,
      File(TemplateContent, 644, "root"),
      File(TemplateContent, 600, "deploy"),
      File([gateway |-> "10.1.0.1", password |-> SENTINEL_PASSWORD, generated |-> FALSE],
           644, "root"),
      File([gateway |-> "10.1.0.1", password |-> "secret", generated |-> FALSE],
           644, "root") }

InitCredentials ==
    /\ pc = "credentials"
    /\ umask \in Umasks
    /\ HostInit
    /\ base_dir = Dir("root", 755)
    /\ log_dir = Dir("root", 755)
    /\ venv_dir = Absent
    /\ files = NoFiles
    /\ env_file \in EnvFiles
    /\ crontab = <<>>
    /\ hist = BlankHist

\* the password prompt is reached when the gateway prompt gave a value
PasswordAsked(gw) == gw \notin Signals /\ Strip(gw) # ""

\* a caller calls configure_credentials; the prompts are reached only on a
\* file that is not configured, the file is written only with both values
CallConfigureCredentials ==
    /\ pc = "credentials"
    /\ hist.calls < MaxCalls
    /\ LET asks == env_file = Absent \/ HasGatewaySentinel(env_file.content)
                                     \/ HasPasswordSentinel(env_file.content)
       IN  \E gw \in (IF asks THEN TypedGateways \cup Signals ELSE {""}) :
           \E pw \in (IF asks /\ PasswordAsked(gw) THEN TypedPasswords \cup Signals ELSE {""}) :
           \E write_ok \in (IF asks /\ PasswordAsked(gw) /\ PasswordAsked(pw)
                            THEN BOOLEAN ELSE {TRUE}) :
              LET r == configure_credentials(env_file, base_dir, umask, gw, pw, write_ok)
              IN  /\ env_file' = r.env_file
                  /\ hist' = [hist EXCEPT
                                !.calls = @ + 1,
                                !.cc = [called |-> TRUE, asked |-> asks, gw |-> gw, pw |-> pw,
                                        before |-> env_file, ok |-> r.ok, wrote |-> r.wrote]]
    /\ UNCHANGED << pc, runs, euid, umask, pkg, base_dir, log_dir, venv_dir, files,
                    backups, temp_dir, crontab, remote, started, outcome, summary_shown,
                    exit_code >>

NextCredentials == CallConfigureCredentials

SpecCredentials == InitCredentials /\ [][NextCredentials]_vars

(***************************************************************************)
(* Properties                                                              *)
(***************************************************************************)
AllSucceeded(results) == \A i \in 1..Len(results) : results[i]

\* C1: run starts the ten steps in the order of `steps`; a step is started
\* only after every earlier one returned True; once a step has returned
\* False the process has left run with False: no later step is started, no
\* optional flow has run and no summary is shown
RunIsGatedSequence ==
    /\ Len(started) <= Len(steps)
    /\ \A i \in 1..Len(started) : started[i] = steps[i]
    /\ \A i \in 1..Len(hist.results) : i < Len(started) => hist.results[i]
    /\ pc \in StepNames => pc = steps[Len(started) + 1] /\ AllSucceeded(hist.results)
    /\ pc \in {"ask_credentials", "ask_generation"} =>
          started = steps /\ Len(hist.results) = Len(steps) /\ AllSucceeded(hist.results)
    /\ ~AllSucceeded(hist.results) =>
          /\ pc = "exited"
          /\ outcome = "False"
          /\ exit_code = 1
          /\ Len(started) = Len(hist.results)
          /\ hist.cred = "none"
          /\ hist.gen = "none"
          /\ ~hist.invoked
          /\ ~summary_shown

\* a process stopped by the failure of download_files, the sixth step
C1Witness ==
    /\ pc = "exited"
    /\ outcome = "False"
    /\ Len(started) = 6
    /\ ~hist.results[6]

\* C2: when at least one download fails, download_files returns False and
\* leaves every installed artifact and every backup as it was
AllOrNothingFetch ==
    hist.dl.called /\ hist.dl.failset # {} =>
        /\ ~hist.dl.ok
        /\ files = hist.dl.files_before
        /\ backups = hist.dl.backups_before

\* the last artifact alone fails to download, and an installed artifact
\* differs from what the repository serves
C2Witness ==
    /\ hist.dl.called
    /\ hist.dl.failset = {"requirements.txt"}
    /\ hist.dl.files_before["generate_hosts.py"] # Absent
    /\ hist.dl.files_before["generate_hosts.py"].content # hist.dl.staged["generate_hosts.py"]

\* C3: whenever download_files has returned, its staging directory is gone
StagingRemoved == hist.dl.called => ~temp_dir

\* download_files returned False because the copy loop raised
C3Witness ==
    /\ hist.dl.called
    /\ ~hist.dl.ok
    /\ hist.dl.failset = {}
    /\ hist.dl.err[1] = 2
    /\ ~temp_dir

\* the backups of artifact f that the last download_files call created
NewBackups(f) ==
    {t \in Times : /\ hist.dl.backups_before[backup_name(f, t)] = Absent
                   /\ hist.dl.backups_after[backup_name(f, t)] # Absent}

Changed(f) ==
    /\ hist.dl.files_before[f] # Absent
    /\ hist.dl.files_before[f].content # hist.dl.staged[f]

\* C4: after a successful download_files, every artifact whose installed
\* copy existed and differed from the fetched one has exactly one new
\* backup, holding the content installed before, and the destination holds
\* the fetched content
BackupOnChange ==
    hist.dl.called /\ hist.dl.ok =>
        \A f \in FileNames :
            Changed(f) =>
                /\ Cardinality(NewBackups(f)) = 1
                /\ \A t \in NewBackups(f) :
                      hist.dl.backups_after[backup_name(f, t)].content =
                         hist.dl.files_before[f].content
                /\ hist.dl.files_after[f].content = hist.dl.staged[f]

\* C5: download_files changes the backups of an artifact only when its
\* installed copy existed and differed from the fetched one
NoBackupOnIdentical ==
    hist.dl.called =>
        \A f \in FileNames, t \in Times :
            hist.dl.backups_after[backup_name(f, t)] # hist.dl.backups_before[backup_name(f, t)]
               => Changed(f)

\* a successful call with one artifact identical, one not yet installed and
\* one changed and backed up
C5Witness ==
    /\ hist.dl.called
    /\ hist.dl.ok
    /\ hist.dl.files_before["generate_hosts.py"] # Absent
    /\ ~Changed("generate_hosts.py")
    /\ hist.dl.files_before["run_generate_hosts.sh"] = Absent
    /\ Changed("requirements.txt")
    /\ NewBackups("requirements.txt") # {}
    /\ NewBackups("generate_hosts.py") = {}
    /\ NewBackups("run_generate_hosts.sh") = {}

\* no optional flow of the current process has acted on tplink.env
MandatoryPhase == runs >= 1 /\ hist.cred = "none"

\* C6: the ten mandatory steps never change the content of a tplink.env that
\* existed when the process started, and a tplink.env they create holds the
\* template
EnvFilePreserved ==
    MandatoryPhase =>
        /\ hist.pre.env_file # Absent =>
              /\ env_file # Absent
              /\ env_file.content = hist.pre.env_file.content
        /\ hist.pre.env_file = Absent /\ env_file # Absent =>
              env_file.content = TemplateContent

\* the second process has run its ten steps over configured credentials
C6Witness ==
    /\ pc = "ask_credentials"
    /\ runs = 2
    /\ hist.pre.env_file # Absent
    /\ ~HasGatewaySentinel(hist.pre.env_file.content)
    /\ ~HasPasswordSentinel(hist.pre.env_file.content)
    /\ env_file.content = hist.pre.env_file.content

\* two setup_cron calls in a row, `crontab -l` answering both and the first
\* returning True
TwoCallsInARow ==
    /\ hist.prev_cron.called
    /\ hist.cron.called
    /\ hist.prev_cron.list = "ok"
    /\ hist.cron.list = "ok"
    /\ hist.prev_cron.ok

\* C7 as stated: from any job table, two setup_cron calls in a row leave
\* exactly one line with the entry, and the second returns True without
\* writing the table
CronTwiceFromAnyTable ==
    TwoCallsInARow =>
        /\ CountContaining(crontab, cron_job) = 1
        /\ hist.cron.ok
        /\ ~hist.cron.wrote

\* C7: from a job table with at most one line containing the entry, two
\* setup_cron calls in a row of which the first returns True leave exactly
\* one line containing the entry; a second call that reads the table returns
\* True and does not write it
CronTwiceFromSingleEntryTable ==
    /\ hist.prev_cron.called
    /\ hist.cron.called
    /\ hist.prev_cron.ok
    /\ CountContaining(hist.prev_cron.before, cron_job) <= 1
    =>
    /\ CountContaining(crontab, cron_job) = 1
    /\ hist.cron.list = "ok" =>
          /\ hist.cron.ok
          /\ ~hist.cron.wrote
          /\ crontab = hist.cron.before

\* the first call appended the entry to a table with another job, the second
\* found it
C7Witness ==
    /\ hist.prev_cron.called
    /\ hist.prev_cron.wrote
    /\ Contains(hist.prev_cron.before, "x")
    /\ hist.cron.called
    /\ hist.cron.list = "ok"
    /\ hist.cron.ok
    /\ ~hist.cron.wrote
    /\ CountEqual(crontab, cron_job) = 1

\* the process follows one whose ten steps succeeded from a fresh host, the
\* repository content is the same and nothing outside the program has failed
SecondRunUnchangedEnvironment ==
    /\ hist.prev.ran
    /\ hist.prev.clean_success
    /\ hist.remote_same
    /\ hist.env_ok

\* C8: in a second process on an unchanged environment every step returns
\* True, and after the ten steps the job table has the entry once, no backup
\* exists and tplink.env is as the process found it
SecondRunIdempotent ==
    SecondRunUnchangedEnvironment =>
        /\ AllSucceeded(hist.results)
        /\ pc \notin StepNames =>
              /\ Len(hist.results) = Len(steps)
              /\ CountEqual(crontab, cron_job) = 1
              /\ CountContaining(crontab, cron_job) = 1
              /\ backups = NoBackups
              /\ hist.cred # "configured" => env_file = hist.pre.env_file

\* the second process has run its ten steps
C8Witness ==
    /\ SecondRunUnchangedEnvironment
    /\ runs = 2
    /\ pc = "ask_credentials"
    /\ Len(hist.results) = Len(steps)

\* the process started on a fresh host with an empty job table, its ten steps
\* succeeded and both optional flows were declined
FreshDeclinedSuccess ==
    /\ pc = "exited"
    /\ outcome = "True"
    /\ Clean(hist.pre)
    /\ hist.pre.crontab = <<>>
    /\ hist.cred = "declined"
    /\ hist.gen = "declined"

\* C9: on a fresh host with both optional flows declined, base_dir exists
\* with mode 0755, tplink.env holds both sentinels with mode 0600, the job
\* table has exactly one line equal to the entry and no backup exists
FreshHostOutcome ==
    FreshDeclinedSuccess =>
        /\ base_dir # Absent
        /\ base_dir.mode = MODE_DIR
        /\ env_file # Absent
        /\ HasGatewaySentinel(env_file.content)
        /\ HasPasswordSentinel(env_file.content)
        /\ env_file.mode = MODE_SECRET
        /\ CountEqual(crontab, cron_job) = 1
        /\ CountContaining(crontab, cron_job) = 1
        /\ backups = NoBackups
        /\ ~hist.invoked

\* such a process under a umask that gives new files another mode
C9Witness == FreshDeclinedSuccess /\ umask = "022" /\ exit_code = 0

\* C10: a process that ran its steps exits with 0 exactly when all ten
\* returned True, and with 1 when one returned False; when all ten returned
\* True the summary is shown whatever happens in the optional flows
ExitCodeFollowsSteps ==
    pc = "exited" /\ started # <<>> =>
        /\ exit_code = 0 <=> (Len(hist.results) = Len(steps) /\ AllSucceeded(hist.results))
        /\ ~AllSucceeded(hist.results) => exit_code = 1
        /\ Len(hist.results) = Len(steps) /\ AllSucceeded(hist.results) => summary_shown

\* the process ended in check_privileges or in check_internet_connection
PreflightFailed == pc = "exited" /\ Len(started) \in {1, 2}

\* ... and then nothing on the host has changed since the process started
PreflightLeavesHostUntouched == PreflightFailed => Snapshot = hist.pre

\* C11: when the effective uid is not root or the connectivity probe fails,
\* run returns False (exit status 1) and the host is as the process found
\* it: packages, directories, files, staging directory and job table
PreflightGate ==
    PreflightFailed =>
        /\ outcome = "False"
        /\ exit_code = 1
        /\ Snapshot = hist.pre

\* tplink.env holds neither placeholder
Configured(env) ==
    /\ env # Absent
    /\ ~HasGatewaySentinel(env.content)
    /\ ~HasPasswordSentinel(env.content)

\* C12: no step of the bootstrap, in any process and whatever is typed,
\* writes a tplink.env that holds neither placeholder: the file stays, with
\* its content (only its mode can change)
ConfiguredStaysConfigured ==
    [][Configured(env_file) =>
          /\ env_file' # Absent
          /\ env_file'.content = env_file.content
          /\ env_file'.owner = env_file.owner
          /\ pc = "ask_credentials" => hist'.cred # "configured"]_vars

\* configure_credentials was called in a second process on credentials
\* configured before it started, and returned without writing
C12Witness ==
    /\ runs = 2
    /\ pc = "ask_generation"
    /\ Configured(hist.pre.env_file)
    /\ hist.cred = "kept"
    /\ env_file.content = hist.pre.env_file.content

\* C13: the generation script is started only after all ten steps returned
\* True and with a tplink.env that exists and holds neither placeholder;
\* with any other tplink.env run_initial_generation returns True without
\* starting it
FirstRunGuard ==
    /\ hist.invoked =>
          /\ Len(hist.results) = Len(steps)
          /\ AllSucceeded(hist.results)
          /\ Configured(env_file)
    /\ hist.gen \in {"generated", "timeout", "failed"} => Configured(env_file)
    /\ pc = "exited" /\ hist.gen \notin {"none", "declined", "eof", "interrupted"}
          /\ ~Configured(env_file) => hist.gen = "skipped" /\ ~hist.invoked

\* the script was started on credentials typed in this process
C13Witness ==
    /\ hist.invoked
    /\ hist.gen = "generated"
    /\ hist.cred = "configured"
    /\ Configured(env_file)

\* the entries of a job table: its lines without trailing blanks, the
\* empty ones left out
JobLines(text) ==
    SelectSeq([i \in 1..Len(Lines(text)) |-> rstrip(Lines(text)[i])],
              LAMBDA line : line # <<>>)

AppendsToTable(call) ==
    JobLines(call.after) = JobLines(call.before) \o << <<cron_job>> >>

\* ... which holds for every table that setup_cron commits after `crontab -l`
\* gave it the table
AppendAfterReadPreserves ==
    hist.cron.called /\ hist.cron.wrote /\ hist.cron.list = "ok" =>
        AppendsToTable(hist.cron)

\* C14: whenever setup_cron commits a job table, the table holds the lines
\* it held before the call, in the same order, followed by the entry; also
\* when `crontab -l` failed
AppendPreservesEntries ==
    hist.cron.called /\ hist.cron.wrote => AppendsToTable(hist.cron)

OwnedByRoot(path) == path # Absent => path.owner = "root"

\* C15: after set_permissions returned True, base_dir and every file and
\* directory under it is owned by root
RecursiveOwnership ==
    /\ pc = "setup_cron"
    /\ Len(hist.results) = StepIndex("set_permissions")
    /\ hist.results[StepIndex("set_permissions")]
    =>
    /\ OwnedByRoot(base_dir)
    /\ OwnedByRoot(log_dir)
    /\ OwnedByRoot(env_file)
    /\ \A f \in FileNames : OwnedByRoot(files[f])

\* C16: whenever download_files writes an artifact or a backup, base_dir
\* exists and is owned by root
RootOwnedWhenArtifactsWritten ==
    [][pc = "download_files" /\ (files' # files \/ backups' # backups) =>
          /\ base_dir # Absent
          /\ base_dir.owner = "root"]_vars

\* ... of which the first half holds: base_dir exists whenever download_files
\* writes
RootExistsWhenArtifactsWritten ==
    [][pc = "download_files" /\ (files' # files \/ backups' # backups) =>
          base_dir # Absent]_vars

\* what was typed at a prompt that was reached is empty after strip()
LeftEmpty(typed) == typed \notin Signals /\ Strip(typed) = ""

\* the gateway or the password was left empty, or Ctrl-C came at a prompt
EmptyOrInterrupted(call) ==
    \/ call.gw = KeyboardInterrupt
    \/ LeftEmpty(call.gw)
    \/ PasswordAsked(call.gw) /\ (call.pw = KeyboardInterrupt \/ LeftEmpty(call.pw))

\* C17: configure_credentials on a tplink.env that is not configured: with
\* an empty gateway or password, or Ctrl-C at a prompt, the file is as it
\* was and the method returns True; the file is written only with both
\* values given, and then has mode 0600
CredentialFlowKeepsTemplate ==
    hist.cc.called /\ hist.cc.asked =>
        /\ EmptyOrInterrupted(hist.cc) =>
              /\ env_file = hist.cc.before
              /\ hist.cc.ok
              /\ ~hist.cc.wrote
        /\ ~hist.cc.wrote => env_file = hist.cc.before
        /\ hist.cc.wrote =>
              /\ PasswordAsked(hist.cc.gw)
              /\ PasswordAsked(hist.cc.pw)
              /\ hist.cc.ok
              /\ env_file.content.gateway = Strip(hist.cc.gw)
              /\ env_file.content.password = Strip(hist.cc.pw)
              /\ env_file.mode = MODE_SECRET

\* Ctrl-C at the password prompt, over the template
C17Witness ==
    /\ hist.cc.called
    /\ hist.cc.before # Absent
    /\ hist.cc.before.content = TemplateContent
    /\ hist.cc.gw = "10.1.0.1"
    /\ hist.cc.pw = KeyboardInterrupt
    /\ hist.cc.ok
    /\ env_file = hist.cc.before

\* a path is there or not, and holds what it held, in the next state
SameContent(now, next) ==
    /\ (next = Absent) <=> (now = Absent)
    /\ now # Absent /\ "content" \in DOMAIN now => next.content = now.content
    /\ now # Absent /\ "deps" \in DOMAIN now => next.deps = now.deps

\* what the steps before step k produced is, after step k, as it was before
\* step k; set_permissions, whose subject is the modes and the owner of what
\* they produced, leaves existence and content
EarlierEffectsKept(k) ==
    /\ k = StepIndex("install_system_dependencies") => pkg'.fresh = pkg.fresh
    /\ k > StepIndex("install_system_dependencies") => pkg' = pkg
    /\ k = StepIndex("set_permissions") =>
          /\ SameContent(base_dir, base_dir')
          /\ SameContent(log_dir, log_dir')
          /\ SameContent(venv_dir, venv_dir')
          /\ SameContent(env_file, env_file')
          /\ \A f \in FileNames : SameContent(files[f], files'[f])
          /\ backups' = backups
    /\ k # StepIndex("set_permissions") =>
          /\ k > StepIndex("create_directories") => base_dir' = base_dir /\ log_dir' = log_dir
          /\ k > StepIndex("download_files") => files' = files /\ backups' = backups
          /\ k > StepIndex("setup_virtual_environment") => venv_dir' = venv_dir
          /\ k > StepIndex("create_env_file") => env_file' = env_file

\* C18: a step that fails, and a first-run generation that fails or times
\* out, undo nothing of what the completed steps did
NoRollback ==
    [][/\ pc \in StepNames /\ pc' = "exited" => EarlierEffectsKept(StepIndex(pc))
       /\ pc = "ask_generation" /\ hist'.gen \in {"failed", "timeout"} => host' = host]_vars

\* setup_cron, the last step, failed on a host the process found fresh:
\* what the nine steps before it made is there
C18Witness ==
    /\ pc = "exited"
    /\ outcome = "False"
    /\ Len(started) = Len(steps)
    /\ Clean(hist.pre)
    /\ pkg.installed
    /\ base_dir # Absent /\ base_dir.mode = MODE_DIR
    /\ log_dir # Absent
    /\ venv_dir # Absent
    /\ \A f \in FileNames : files[f] # Absent
    /\ env_file # Absent /\ env_file.mode = MODE_SECRET

\* C19: whenever setup_cron returns True, the job table has at least one
\* whole line equal to the entry
EntryPresentAfterSuccess ==
    hist.cron.called /\ hist.cron.ok => CountEqual(crontab, cron_job) >= 1

\* ... which holds when no line of the table before the call contains the
\* entry inside a longer line
EntryPresentWithoutLookalike ==
    /\ hist.cron.called
    /\ hist.cron.ok
    /\ CountContaining(hist.cron.before, cron_job) = CountEqual(hist.cron.before, cron_job)
    => CountEqual(crontab, cron_job) >= 1

\* every destination holds what was fetched
AllInstalled(call) ==
    \A f \in FileNames :
        /\ call.files_after[f] # Absent
        /\ call.files_after[f].content = call.staged[f]

\* C20: whenever download_files returns, either every destination holds the
\* fetched content or no destination was modified
NoPartialArtifactSet ==
    hist.dl.called => AllInstalled(hist.dl) \/ hist.dl.files_after = hist.dl.files_before

\* ... which holds when no operation of the copy loop raises
NoPartialSetWithoutCopyError ==
    hist.dl.called /\ hist.dl.err[1] = 0 =>
        AllInstalled(hist.dl) \/ hist.dl.files_after = hist.dl.files_before

\* all ten steps of the process returned True: it is at one of the two
\* questions, or it has ended after them
MandatoryStepsSucceeded ==
    /\ pc \in {"ask_credentials", "ask_generation", "exited"}
    /\ Len(hist.results) = Len(steps)
    /\ AllSucceeded(hist.results)

\* the mode set_permissions gives to an artifact
FixedMode(f) ==
    files_permissions[CHOOSE j \in 1..Len(files_permissions) : files_permissions[j][1] = f][2]

\* C21: from the end of the ten steps, when all returned True, to the end of
\* the process, whatever was typed in the optional flows, tplink.env has
\* mode 0600, run_generate_hosts.sh 0755, generate_hosts.py and
\* requirements.txt 0644
SecretFileMode ==
    MandatoryStepsSucceeded =>
        /\ env_file # Absent
        /\ env_file.mode = MODE_SECRET
        /\ \A f \in FileNames : files[f] # Absent => files[f].mode = FixedMode(f)
        /\ files["run_generate_hosts.sh"] # Absent => files["run_generate_hosts.sh"].mode = MODE_SCRIPT
        /\ files["generate_hosts.py"] # Absent => files["generate_hosts.py"].mode = MODE_PLAIN
        /\ files["requirements.txt"] # Absent => files["requirements.txt"].mode = MODE_PLAIN

\* the process found tplink.env readable by all and a script with another
\* mode, and the operator typed the credentials
C21Witness ==
    /\ MandatoryStepsSucceeded
    /\ pc = "exited"
    /\ hist.pre.env_file # Absent
    /\ hist.pre.env_file.mode = MODE_PLAIN
    /\ hist.pre.files["generate_hosts.py"] # Absent
    /\ hist.pre.files["generate_hosts.py"].mode = MODE_SECRET
    /\ hist.cred = "configured"
    /\ umask = "022"

====
